---- MODULE Spec2Model ----
(***************************************************************************)
(* Model of src/main.py: a Discord bot that mirrors the member roster of   *)
(* one guild into a Google Sheet (sync_members) and keeps a bounded JSON   *)
(* execution log (write_log).                                              *)
(*                                                                         *)
(* Scheduling.  The bot runs on one asyncio event loop.  sheet.col_values  *)
(* and sheet.append_row are blocking calls, so the only suspension point   *)
(* of sync_members is `await asyncio.sleep(1)` (line 119).  The variable   *)
(* cur holds the run that owns the event loop (0 when the loop is idle):   *)
(* a run's steps are taken only while cur is that run, and another         *)
(* handler starts or resumes only when cur = 0.                            *)
(***************************************************************************)
EXTENDS Integers, Sequences, FiniteSets, TLC

\* ------------------------------------------------------------- bounds
MaxMember == 2      \* member identities are 9 .. 8 + MaxMember
MaxRuns == 2        \* sync_members invocations per behaviour
MaxRosterInit == 3  \* length of guild.members in the initial state
MaxInitRows == 2    \* rows in the sheet in the initial state
MaxRare == 1        \* rare environment events per behaviour: a fault of an
                    \* external call, an external edit of the sheet, a member
                    \* leaving, a join event of another guild
MaxLogCalls == 102  \* stored log entries per behaviour of SpecLog

\* --------------------------------------------------- program constants
LogCap == 100       \* data[:100]
IdColumn == 3       \* sheet.col_values(3)
SleepSeconds == 1   \* asyncio.sleep(1)

\* ------------------------------------------------------------ helpers
Range(s) == {s[i] : i \in 1..Len(s)}

Take(s, n) == SubSeq(s, 1, IF Len(s) < n THEN Len(s) ELSE n)

IsPrefix(s, t) == Len(s) <= Len(t) /\ SubSeq(t, 1, Len(s)) = s

Max(a, b) == IF a >= b THEN a ELSE b

SeqsUpTo(S, n) == UNION {[1..k -> S] : k \in 0..n}

Remove(s, x) == SelectSeq(s, LAMBDA y : y # x)

Digits == <<"0", "1", "2", "3", "4", "5", "6", "7", "8", "9">>

\* str(member.id): the decimal representation of a non-negative integer
RECURSIVE str(_)
str(n) == IF n < 10 THEN Digits[n + 1]
          ELSE str(n \div 10) \o Digits[(n % 10) + 1]

Pad2(n) == IF n < 10 THEN "0" \o str(n) ELSE str(n)

\* datetime.utcnow().strftime("%Y-%m-%d %H:%M:%S"); the clock counts the
\* seconds since midnight of one fixed day
strftime(t) == "2025-01-01 " \o Pad2(t \div 3600) \o ":"
               \o Pad2((t \div 60) % 60) \o ":" \o Pad2(t % 60)

\* ------------------------------------------------------------ members
MemberIds == {8 + i : i \in 1..MaxMember}

display_name(m) == "nick" \o str(m)
name(m) == "user" \o str(m)
display_avatar_url(m) == "https://cdn/" \o str(m) \o ".png"

\* variant: the identity written to the second cell, the handle to the third
MemberRowIdSecond(m, t) ==
    <<display_name(m), str(m), name(m), display_avatar_url(m), strftime(t)>>

\* the list handed to sheet.append_row for one member at clock t
MemberRow(m, t) ==
    <<display_name(m), name(m), str(m), display_avatar_url(m), strftime(t)>>

HeaderRow == <<"Name", "User", "ID", "Avatar", "Synced">>

\* sheet.col_values(n): the cells of one column, top to bottom
col_values(s, n) == [i \in 1..Len(s) |-> s[i][n]]

\* variant: the values are written over the last row
overwrite_last_row(s, values) ==
    IF s = <<>> THEN <<values>> ELSE [s EXCEPT ![Len(s)] = values]

\* sheet.append_row(values): the row lands below the last row
append_row(s, values) == Append(s, values)

\* number of rows of s whose identity cell is uid
RowsOf(s, uid) == Cardinality({i \in 1..Len(s) : s[i][IdColumn] = uid})

\* variant: the handle column is read instead of the identity column
NameColumnIds(s) == Range(col_values(s, 2))

\* set(sheet.col_values(3))
ExistingIds(s) == Range(col_values(s, IdColumn))

\* variant: the uid is not added to the set
ForgetUid(ids, uid) == ids

\* existing_ids.add(uid)
Remember(ids, uid) == ids \cup {uid}

\* variant: the None check is missing
AlwaysResolved(found) == "col_values"

\* `if guild is None: return`: where the run goes after get_guild
GuildBranch(found) == IF found THEN "col_values" ELSE "returned"

\* variant: the exception is swallowed per row and the loop goes on
SwallowAppendError == "sleep"

\* append_row is called outside any try: its exception ends the run
OnAppendError == "failed"

\* ---------------------------------------------------------------- log
LogFaults == {"none", "read", "open_w", "dump"}

NoFile == [state |-> "absent", data |-> <<>>]

LogEntry(t, status, member_count) ==
    [timestamp |-> strftime(t), status |-> status, member_count |-> member_count]

\* variant: the entry is put at the end of the list
write_log_at_end(file, status, member_count, t, fault) ==
    IF file.state = "corrupt" \/ fault # "none" THEN file
    ELSE [state |-> "valid",
          data |-> Take(file.data \o <<LogEntry(t, status, member_count)>>, LogCap)]

\* variant: the list is read, the call is suspended, and the list is written
\* back without the entry another call stored meanwhile
write_log_stale(file, status, member_count, t, fault) ==
    IF file.state = "corrupt" \/ fault # "none" THEN file
    ELSE [state |-> "valid",
          data |-> Take(<<LogEntry(t, status, member_count)>>
                          \o (IF file.data = <<>> THEN <<>> ELSE Tail(file.data)),
                        LogCap)]

\* write_log: the file after one call.  fault "read" is a failure of
\* open/json.load, "open_w" a failure to open the file for writing, "dump" a
\* failure of json.dump after the file was truncated; every exception is
\* swallowed by the except clause.  A corrupt file makes json.load raise.
write_log(file, status, member_count, t, fault) ==
    IF file.state = "corrupt" \/ (fault = "read" /\ file.state = "valid")
        THEN file
    ELSE IF fault = "open_w" THEN file
    ELSE IF fault = "dump" THEN [state |-> "corrupt", data |-> <<>>]
    ELSE [state |-> "valid",
          data |-> Take(<<LogEntry(t, status, member_count)>> \o file.data, LogCap)]

\* whether the call above stored its entry
Stored(file, fault) ==
    /\ file.state # "corrupt"
    /\ fault = "none" \/ (fault = "read" /\ file.state = "absent")

\* -------------------------------------------------------------- state
Runs == 1..MaxRuns

VARIABLES
    proc,         \* "config" | "main" | "serving" | "crashed" | "killed"
    env,          \* os.environ: what each required setting holds
    events,       \* gateway events dispatched so far, by kind
    guild_found,  \* bot.get_guild(GUILD_ID) is not None
    members,      \* guild.members: a sequence of member identities
    sheet,        \* the worksheet: a sequence of rows
    log_file,     \* LOG_FILE: [state, data]
    now,          \* datetime.utcnow(), in seconds
    cur,          \* the run that owns the event loop, 0 when it is idle
    next_run,     \* the next unused run
    pc,           \* pc[r]: where run r stands in sync_members
    roster,       \* roster[r]: the sequence `for member in guild.members` walks
    idx,          \* idx[r]: position of the loop in roster[r]
    existing_ids, \* existing_ids[r]
    added,        \* added[r]
    wake_at,      \* wake_at[r]: earliest clock at which the sleep is over
    hist,         \* hist[r]: history of run r (not program state)
    rare,         \* rare environment events so far
    ext_edits,    \* external edits of the sheet so far
    log_hist,     \* every entry ever stored, most recent first (not program state)
    restarts      \* process restarts so far

vars == <<proc, env, events, guild_found, members, sheet, log_file, now, cur, next_run,
          pc, roster, idx, existing_ids, added, wake_at, hist, rare,
          ext_edits, log_hist, restarts>>

runVars == <<cur, next_run, pc, roster, idx, existing_ids, added, wake_at, hist>>
logVars == <<log_file, log_hist>>
envVars == <<env, events, guild_found, members, rare, ext_edits, restarts>>

\* lines 44-52: the four settings read with os.environ[...]; a missing one
\* raises KeyError, int() raises on a guild id that is no number, and a blob
\* that does not decode to a key file raises in the credential bootstrap
Environments ==
    [DISCORD_TOKEN : {"set", "missing"},
     DISCORD_GUILD_ID : {"int", "text", "missing"},
     SPREADSHEET_ID : {"set", "missing"},
     GOOGLE_CREDENTIALS_JSON : {"key", "undecodable", "missing"}]

GoodEnv == [DISCORD_TOKEN |-> "set", DISCORD_GUILD_ID |-> "int",
            SPREADSHEET_ID |-> "set", GOOGLE_CREDENTIALS_JSON |-> "key"]

\* variant: the settings are read with defaults and looked at on first use
ConfigLoadsLazily(e) == TRUE

\* lines 44-64 run to their end
ConfigLoads(e) == e = GoodEnv

\* line 45: the configured guild, and some other guild the bot is also in
GUILD_ID == 1
OtherGuild == GUILD_ID + 1

\* variant: the join handler does not look at the guild
AnyGuild(guild_id) == TRUE

\* line 134: member.guild.id == GUILD_ID
SameGuild(guild_id) == guild_id = GUILD_ID

NoEvents == [ready |-> 0, join |-> 0, other |-> 0]

NoHist == [trigger |-> "none", joined |-> 0, read |-> FALSE, sheet0 |-> <<>>,
           rows |-> <<>>, overlapped |-> FALSE, final |-> <<>>,
           log0 |-> NoFile, log1 |-> NoFile, fault |-> "none", raised |-> "none",
           times |-> <<>>, sleeps |-> 0]

FreshRuns ==
    /\ cur = 0
    /\ next_run = 1
    /\ pc = [r \in Runs |-> "unused"]
    /\ roster = [r \in Runs |-> <<>>]
    /\ idx = [r \in Runs |-> 0]
    /\ existing_ids = [r \in Runs |-> {}]
    /\ added = [r \in Runs |-> 0]
    /\ wake_at = [r \in Runs |-> 0]
    /\ hist = [r \in Runs |-> NoHist]

\* the sheet a deployment starts from: a header row, then rows of earlier syncs
InitialRows == <<HeaderRow>> \o [i \in 1..MaxMember |-> MemberRow(8 + i, 0)]

Init ==
    /\ proc = "config"
    /\ env \in Environments
    /\ events = NoEvents
    /\ guild_found \in BOOLEAN
    /\ members \in SeqsUpTo(MemberIds, MaxRosterInit)
    /\ sheet \in {SubSeq(InitialRows, 1, k) : k \in 0..MaxInitRows}
    /\ log_file = NoFile
    /\ now = 0
    /\ FreshRuns
    /\ rare = 0
    /\ ext_edits = 0
    /\ log_hist = <<>>
    /\ restarts = 0

Active(r) == pc[r] \in {"get_guild", "col_values", "loop", "sleep", "hung"}
Finished(r) == pc[r] \in {"done", "returned", "failed"}

\* the log faults that can occur on the file as it is: a corrupt file always
\* fails to load, an absent file is not read
FaultsFor(file) ==
    IF file.state = "corrupt" THEN {"read"}
    ELSE IF rare >= MaxRare THEN {"none"}
    ELSE IF file.state = "absent" THEN LogFaults \ {"read"}
    ELSE LogFaults

\* a rare environment event is counted
CountRare(happened) == rare' = IF happened THEN rare + 1 ELSE rare

\* variant: write_log lets its exception out
LogErrorRaises == "failed"

\* lines 88-89: except Exception prints and write_log returns normally, so the
\* caller goes on as after a call that stored its entry
OnLogError == "done"

\* one write_log call at the current clock, with its bookkeeping
CallWriteLog(status, member_count, fault) ==
    /\ log_file' = write_log(log_file, status, member_count, now, fault)
    /\ log_hist' = IF Stored(log_file, fault)
                     THEN <<LogEntry(now, status, member_count)>> \o log_hist
                     ELSE log_hist

\* ------------------------------------------------------ process start
\* lines 44-64: module-level configuration and credential bootstrap
LoadConfig ==
    /\ proc = "config"
    /\ proc' = IF ConfigLoads(env) THEN "main" ELSE "crashed"
    /\ UNCHANGED <<sheet, now, runVars, logVars, envVars>>

\* lines 139-141: write_log("starting"), then bot.run(TOKEN)
Main(fault) ==
    /\ proc = "main"
    /\ fault \in FaultsFor(log_file)
    /\ CallWriteLog("starting", 0, fault)
    /\ CountRare(fault # "none" /\ log_file.state # "corrupt")
    /\ proc' = IF Stored(log_file, fault) \/ OnLogError = "done"
                 THEN "serving" ELSE "crashed"
    /\ UNCHANGED <<sheet, now, runVars, env, events, guild_found, members, ext_edits,
                   restarts>>

\* ------------------------------------------------------------- events
\* a handler task starts sync_members as run next_run
StartRun(trigger, m) ==
    /\ proc = "serving"
    /\ cur = 0
    /\ next_run <= MaxRuns
    /\ cur' = next_run
    /\ next_run' = next_run + 1
    /\ pc' = [pc EXCEPT ![next_run] = "get_guild"]
    /\ hist' = [r \in Runs |->
                 IF r = next_run
                   THEN [hist[r] EXCEPT !.trigger = trigger, !.joined = m,
                           !.overlapped = \E q \in Runs : pc[q] = "sleep"]
                 ELSE IF pc[r] = "sleep" THEN [hist[r] EXCEPT !.overlapped = TRUE]
                 ELSE hist[r]]
    /\ UNCHANGED <<roster, idx, existing_ids, added, wake_at>>

\* lines 126-129
on_ready ==
    /\ StartRun("ready", 0)
    /\ events' = [events EXCEPT !.ready = @ + 1]
    /\ UNCHANGED <<proc, sheet, now, logVars, env, guild_found, members, rare,
                   ext_edits, restarts>>

\* lines 132-135, member.guild.id == GUILD_ID: the library has put the member
\* into the guild's member cache before it dispatches the event
on_member_join(m) ==
    /\ guild_found
    /\ proc = "serving"
    /\ cur = 0
    /\ events' = [events EXCEPT !.join = @ + 1]
    /\ IF SameGuild(GUILD_ID) THEN StartRun("join", m) ELSE UNCHANGED runVars
    /\ members' = IF m \in Range(members) THEN members ELSE Append(members, m)
    /\ UNCHANGED <<proc, sheet, now, logVars, env, guild_found, rare,
                   ext_edits, restarts>>

\* lines 132-135, member.guild.id != GUILD_ID: the handler does nothing
on_member_join_other ==
    /\ proc = "serving"
    /\ cur = 0
    /\ rare < MaxRare
    /\ rare' = rare + 1
    /\ events' = [events EXCEPT !.other = @ + 1]
    /\ IF SameGuild(OtherGuild) THEN StartRun("join", 0) ELSE UNCHANGED runVars
    /\ UNCHANGED <<proc, sheet, now, logVars, env, guild_found, members,
                   ext_edits, restarts>>

\* a member leaves the guild: no handler is registered for it
MemberLeave(m) ==
    /\ proc = "serving"
    /\ cur = 0
    /\ rare < MaxRare
    /\ m \in Range(members)
    /\ members' = Remove(members, m)
    /\ rare' = rare + 1
    /\ UNCHANGED <<proc, sheet, now, runVars, logVars, env, events, guild_found,
                   ext_edits, restarts>>

\* the configured guild becomes known to the bot
GuildAvailable ==
    /\ proc = "serving"
    /\ cur = 0
    /\ ~guild_found
    /\ guild_found' = TRUE
    /\ UNCHANGED <<proc, sheet, now, runVars, logVars, env, events, members,
                   rare, ext_edits, restarts>>

\* ------------------------------------------------------- sync_members
\* run r ends; the event loop is free again
EndRun(r, how, raised) ==
    /\ pc' = [pc EXCEPT ![r] = how]
    /\ cur' = 0
    /\ hist' = [hist EXCEPT ![r].final = sheet, ![r].raised = raised]

\* lines 94-97: guild = bot.get_guild(GUILD_ID); return when it is None
GetGuild(r) ==
    /\ cur = r
    /\ pc[r] = "get_guild"
    /\ IF GuildBranch(guild_found) = "returned"
         THEN EndRun(r, "returned", "none")
         ELSE /\ pc' = [pc EXCEPT ![r] = GuildBranch(guild_found)]
              /\ UNCHANGED <<cur, hist>>
    /\ UNCHANGED <<proc, sheet, now, next_run, roster, idx, existing_ids, added,
                   wake_at, logVars, envVars>>

\* variant: the set is a module-level cache that the first run fills
CachedIds(r, s) == IF r = 1 THEN ExistingIds(s) ELSE existing_ids[r - 1]

\* line 100: existing_ids is a local of sync_members, built from the sheet as
\* it is when run r reads it
ReadIds(r, s) == ExistingIds(s)

\* lines 100-103: existing_ids = set(sheet.col_values(3)); added = 0; the for
\* statement takes guild.members.  A failing read raises out of sync_members.
ColValues(r, ok) ==
    /\ cur = r
    /\ pc[r] = "col_values"
    /\ ok \/ rare < MaxRare
    /\ CountRare(~ok)
    /\ IF ok
         THEN /\ existing_ids' = [existing_ids EXCEPT ![r] = ReadIds(r, sheet)]
              /\ added' = [added EXCEPT ![r] = 0]
              /\ roster' = [roster EXCEPT ![r] = members]
              /\ idx' = [idx EXCEPT ![r] = 1]
              /\ pc' = [pc EXCEPT ![r] = "loop"]
              /\ hist' = [hist EXCEPT ![r].read = TRUE, ![r].sheet0 = sheet]
              /\ UNCHANGED cur
         ELSE /\ EndRun(r, "failed", "col_values")
              /\ UNCHANGED <<existing_ids, added, roster, idx>>
    /\ UNCHANGED <<proc, sheet, now, next_run, wake_at, logVars, env, events,
                   guild_found, members, ext_edits, restarts>>

\* variants: the loop stays at its member; the loop steps over a member
SameIndex(i) == i
SkipTwo(i) == i + 2

\* line 103: the for statement takes the next member of the roster
NextIndex(i) == i + 1

\* the member the loop of run r stands at, and its uid (line 104)
AtMember(r) == pc[r] = "loop" /\ idx[r] <= Len(roster[r])
Uid(r) == str(roster[r][idx[r]])

\* lines 105-106: uid in existing_ids: continue
Skip(r) ==
    /\ cur = r
    /\ AtMember(r)
    /\ Uid(r) \in existing_ids[r]
    /\ idx' = [idx EXCEPT ![r] = NextIndex(idx[r])]
    /\ UNCHANGED <<proc, sheet, now, cur, next_run, pc, roster, existing_ids,
                   added, wake_at, hist, logVars, envVars>>

\* variant: the loop yields after an append but lets no time pass
NoPacing(t) == t

\* line 119: await asyncio.sleep(1) resumes the loop one second later at the
\* earliest
SleepUntil(t) == t + SleepSeconds

\* lines 107-119: append the row, count it, remember the uid, then sleep; a
\* failing append_row raises out of sync_members and out of the handler
AppendRow(r, ok) ==
    /\ cur = r
    /\ AtMember(r)
    /\ Uid(r) \notin existing_ids[r]
    /\ ok \/ rare < MaxRare
    /\ CountRare(~ok)
    /\ IF ok
         THEN /\ sheet' = append_row(sheet, MemberRow(roster[r][idx[r]], now))
              /\ added' = [added EXCEPT ![r] = added[r] + 1]
              /\ existing_ids' = [existing_ids EXCEPT ![r] = Remember(existing_ids[r], Uid(r))]
              /\ wake_at' = [wake_at EXCEPT ![r] = SleepUntil(now)]
              /\ pc' = [pc EXCEPT ![r] = "sleep"]
              /\ cur' = 0
              /\ hist' = [hist EXCEPT ![r].rows =
                            Append(hist[r].rows, MemberRow(roster[r][idx[r]], now)),
                            ![r].times = Append(hist[r].times, now)]
         ELSE /\ EndRun(r, OnAppendError, "append_row")
              /\ UNCHANGED <<sheet, added, existing_ids, wake_at>>
    /\ UNCHANGED <<proc, now, next_run, roster, idx, logVars, env, events,
                   guild_found, members, ext_edits, restarts>>

\* line 119: the sleep is over, the loop goes on with the next member
Wake(r) ==
    /\ cur = 0
    /\ pc[r] = "sleep"
    /\ now' = Max(now, wake_at[r])
    /\ cur' = r
    /\ pc' = [pc EXCEPT ![r] = "loop"]
    /\ idx' = [idx EXCEPT ![r] = NextIndex(idx[r])]
    /\ hist' = [hist EXCEPT ![r].sleeps = @ + 1]
    /\ UNCHANGED <<proc, sheet, next_run, roster, existing_ids, added, wake_at,
                   logVars, envVars>>

\* lines 100 and 108: the gspread calls block the thread and carry no timeout:
\* a call that never returns keeps the run, and the event loop, where it is
Hang(r) ==
    /\ cur = r
    /\ pc[r] = "col_values" \/ (AtMember(r) /\ Uid(r) \notin existing_ids[r])
    /\ rare < MaxRare
    /\ rare' = rare + 1
    /\ pc' = [pc EXCEPT ![r] = "hung"]
    /\ UNCHANGED <<proc, sheet, now, cur, next_run, roster, idx, existing_ids,
                   added, wake_at, hist, logVars, env, events, guild_found,
                   members, ext_edits, restarts>>

\* variant: the roster size is reported
RosterSize(r) == Len(roster[r])

\* line 122: the count handed to write_log
SyncCount(r) == added[r]

\* lines 121-122: the loop is over: write_log("sync", added)
WriteLog(r, fault) ==
    /\ cur = r
    /\ pc[r] = "loop"
    /\ idx[r] > Len(roster[r])
    /\ fault \in FaultsFor(log_file)
    /\ CallWriteLog("sync", SyncCount(r), fault)
    /\ CountRare(fault # "none" /\ log_file.state # "corrupt")
    /\ pc' = [pc EXCEPT ![r] = IF Stored(log_file, fault) THEN "done"
                                ELSE OnLogError]
    /\ cur' = 0
    /\ hist' = [hist EXCEPT ![r].final = sheet, ![r].fault = fault,
                  ![r].log0 = log_file,
                  ![r].log1 = log_file',
                  ![r].raised = IF Stored(log_file, fault) \/ OnLogError = "done"
                                  THEN "none" ELSE "write_log"]
    /\ UNCHANGED <<proc, sheet, now, next_run, roster, idx, existing_ids, added,
                   wake_at, env, events, guild_found, members, ext_edits, restarts>>

\* ------------------------------------------------------ external edits
\* somebody else edits the spreadsheet between runs
Quiet == cur = 0 /\ \A r \in Runs : ~Active(r)

ExternalAppend(row) ==
    /\ Quiet
    /\ rare < MaxRare
    /\ sheet' = Append(sheet, row)
    /\ rare' = rare + 1
    /\ ext_edits' = ext_edits + 1
    /\ UNCHANGED <<proc, now, runVars, logVars, env, events, guild_found, members,
                   restarts>>

ExternalDelete(i) ==
    /\ Quiet
    /\ rare < MaxRare
    /\ i \in 1..Len(sheet)
    /\ sheet' = SubSeq(sheet, 1, i - 1) \o SubSeq(sheet, i + 1, Len(sheet))
    /\ rare' = rare + 1
    /\ ext_edits' = ext_edits + 1
    /\ UNCHANGED <<proc, now, runVars, logVars, env, events, guild_found, members,
                   restarts>>

\* ------------------------------------------------------- specification
Next ==
    \/ LoadConfig
    \/ \E fault \in LogFaults : Main(fault)
    \/ on_ready
    \/ \E m \in MemberIds : on_member_join(m)
    \/ on_member_join_other
    \/ \E m \in MemberIds : MemberLeave(m)
    \/ GuildAvailable
    \/ \E r \in Runs : GetGuild(r)
    \/ \E r \in Runs, ok \in BOOLEAN : ColValues(r, ok)
    \/ \E r \in Runs : Skip(r)
    \/ \E r \in Runs, ok \in BOOLEAN : AppendRow(r, ok)
    \/ \E r \in Runs : Wake(r)
    \/ \E r \in Runs : Hang(r)
    \/ \E r \in Runs, fault \in LogFaults : WriteLog(r, fault)
    \/ \E m \in MemberIds : ExternalAppend(MemberRow(m, now))
    \/ \E i \in 1..Len(sheet) : ExternalDelete(i)

Spec == Init /\ [][Next]_vars

\* ------------------------------------------- specification with fairness
\* one step of sync_members in run r whose external call, if it makes one,
\* returns or raises
RunStep(r) ==
    \/ GetGuild(r)
    \/ \E ok \in BOOLEAN : ColValues(r, ok)
    \/ Skip(r)
    \/ \E ok \in BOOLEAN : AppendRow(r, ok)
    \/ Wake(r)
    \/ \E fault \in LogFaults : WriteLog(r, fault)

\* the event loop runs a task that is ready and fires a timer that is due;
\* events and faults of the environment come as they like
FairSpec == Spec /\ \A r \in Runs : WF_vars(RunStep(r))

\* ---------------------------------------- specification of the log alone
\* write_log driven through many calls: the process starts, records one
\* "sync" entry per completed run, and is restarted by its host now and then.
\* One second passes after every stored entry, so that entries differ.
InitLog ==
    /\ proc = "config"
    /\ env = GoodEnv
    /\ events = NoEvents
    /\ guild_found = TRUE
    /\ members = <<>>
    /\ sheet = <<>>
    /\ log_file = NoFile
    /\ now = 0
    /\ FreshRuns
    /\ rare = 0
    /\ ext_edits = 0
    /\ log_hist = <<>>
    /\ restarts = 0

SecondPasses ==
    /\ now < Len(log_hist)
    /\ now' = now + 1
    /\ UNCHANGED <<proc, sheet, runVars, logVars, envVars>>

LogMain(fault) ==
    /\ now = Len(log_hist)
    /\ Len(log_hist) < MaxLogCalls
    /\ Main(fault)

\* line 122 at the end of a run that appended member_count rows
LogSync(member_count, fault) ==
    /\ proc = "serving"
    /\ now = Len(log_hist)
    /\ Len(log_hist) < MaxLogCalls
    /\ fault \in FaultsFor(log_file)
    /\ CallWriteLog("sync", member_count, fault)
    /\ CountRare(fault # "none" /\ log_file.state # "corrupt")
    /\ UNCHANGED <<proc, sheet, now, runVars, env, events, guild_found, members,
                   ext_edits, restarts>>

\* the hosting platform stops the process and starts it again
Restart ==
    /\ proc = "serving"
    /\ rare < MaxRare
    /\ rare' = rare + 1
    /\ restarts' = restarts + 1
    /\ proc' = "config"
    /\ UNCHANGED <<sheet, now, runVars, logVars, env, events, guild_found, members,
                   ext_edits>>

NextLog ==
    \/ LoadConfig
    \/ \E fault \in LogFaults : LogMain(fault)
    \/ SecondPasses
    \/ \E fault \in LogFaults : LogSync(Len(log_hist) % (MaxMember + 1), fault)
    \/ Restart

SpecLog == InitLog /\ [][NextLog]_vars

\* =============================================================== claims
HasRowFor(rows, uid) == \E k \in 1..Len(rows) : rows[k][IdColumn] = uid

Unsynced(s, m) == RowsOf(s, str(m)) = 0

TwiceIn(seq, m) == \E i, j \in 1..Len(seq) : i < j /\ seq[i] = m /\ seq[j] = m

\* C1: completeness.  A run that resolved the guild, ran to its end without a
\* failure and overlapped no other run leaves exactly one row for every
\* member of its roster that had no row when the run read the sheet, also
\* for a member that occurs several times in the roster.
Completeness ==
    \A r \in Runs :
        (pc[r] = "done" /\ ~hist[r].overlapped) =>
            \A i \in 1..Len(roster[r]) :
                Unsynced(hist[r].sheet0, roster[r][i]) =>
                    RowsOf(hist[r].final, str(roster[r][i])) = 1

WitnessCompleteness ==
    \E r \in Runs, m \in MemberIds :
        /\ pc[r] = "done"
        /\ ~hist[r].overlapped
        /\ TwiceIn(roster[r], m)
        /\ Unsynced(hist[r].sheet0, m)
        /\ RowsOf(hist[r].final, str(m)) = 1

\* C2: no duplication.  A run appends no row for a member whose identity was
\* in the identity column when the run read it, whatever the roster, also
\* when the member occurs twice in it and also when runs overlap.
NoDuplication ==
    \A r \in Runs : \A m \in MemberIds :
        ~Unsynced(hist[r].sheet0, m) => ~HasRowFor(hist[r].rows, str(m))

WitnessNoDuplication ==
    \E r \in Runs, m \in MemberIds :
        /\ pc[r] = "done"
        /\ TwiceIn(roster[r], m)
        /\ ~Unsynced(hist[r].sheet0, m)
        /\ hist[r].rows # <<>>
        /\ RowsOf(hist[r].final, str(m)) = 1

\* C3: idempotence.  When a run reads the sheet as a completed run of the
\* same roster left it, it appends no row, its count is 0, and the entry it
\* stores in the log reports member_count 0.
Idempotence ==
    \A r1, r2 \in Runs :
        ( /\ r1 # r2
          /\ pc[r1] = "done"
          /\ hist[r2].read
          /\ roster[r2] = roster[r1]
          /\ hist[r2].sheet0 = hist[r1].final )
        => /\ hist[r2].rows = <<>>
           /\ pc[r2] = "done" =>
                /\ added[r2] = 0
                /\ Stored(hist[r2].log0, hist[r2].fault) =>
                     /\ hist[r2].log1.data[1].status = "sync"
                     /\ hist[r2].log1.data[1].member_count = 0

WitnessIdempotence ==
    \E r1, r2 \in Runs :
        /\ r1 < r2
        /\ pc[r1] = "done" /\ pc[r2] = "done"
        /\ ~hist[r1].overlapped /\ ~hist[r2].overlapped
        /\ Len(hist[r1].rows) >= 1
        /\ roster[r2] = roster[r1]
        /\ hist[r2].sheet0 = hist[r1].final
        /\ hist[r2].rows = <<>>
        /\ log_file.state = "valid"
        /\ Len(log_file.data) >= 2
        /\ log_file.data[1] = LogEntry(now, "sync", 0)
        /\ log_file.data[2].member_count >= 1

\* C4: the sheet is append-only under the reconciler.  Every step that is not
\* an external edit keeps the rows that were there, unmodified and in order,
\* whatever runs overlap and whoever left the roster.
AppendOnly ==
    [][ext_edits' = ext_edits => IsPrefix(sheet, sheet')]_vars

\* a member of an earlier run's roster has left, a later run completed
\* without them, and their row is still there
WitnessAppendOnly ==
    \E r1, r2 \in Runs, m \in MemberIds :
        /\ r1 < r2
        /\ m \in Range(roster[r1])
        /\ HasRowFor(hist[r1].rows, str(m))
        /\ pc[r2] = "done"
        /\ m \notin Range(roster[r2])
        /\ hist[r2].rows # <<>>
        /\ ext_edits = 0
        /\ RowsOf(sheet, str(m)) = 1

\* C5 as stated: every run that walked its whole roster has put exactly one
\* "sync" entry on top of the log, with member_count the number of rows that
\* run appended.
EveryRunLogsItsCount ==
    \A r \in Runs :
        pc[r] = "done" =>
            /\ Len(hist[r].log1.data) = Len(hist[r].log0.data) + 1
            /\ hist[r].log1.data[1].status = "sync"
            /\ hist[r].log1.data[1].member_count = Len(hist[r].rows)
            /\ Tail(hist[r].log1.data) = hist[r].log0.data

\* C5 amended: a run that walked its whole roster calls write_log once; when
\* the call succeeds it has put exactly one "sync" entry on top of the log,
\* with member_count the number of rows that run appended; when the call
\* fails (the failure is swallowed) the run has recorded no entry.
SyncEntryCountsAppends ==
    \A r \in Runs :
        pc[r] = "done" =>
            IF Stored(hist[r].log0, hist[r].fault)
              THEN /\ hist[r].log1.state = "valid"
                   /\ Len(hist[r].log1.data) = Len(hist[r].log0.data) + 1
                   /\ hist[r].log1.data[1].status = "sync"
                   /\ hist[r].log1.data[1].member_count = Len(hist[r].rows)
                   /\ Tail(hist[r].log1.data) = hist[r].log0.data
              ELSE \/ hist[r].log1 = hist[r].log0
                   \/ hist[r].log1.data = <<>>

\* the sheet held one member's identity, the roster held two members, the
\* run appended one row and its entry reports 1
WitnessSyncEntry ==
    \E r \in Runs :
        /\ pc[r] = "done"
        /\ Len(roster[r]) = 2
        /\ roster[r][1] # roster[r][2]
        /\ ~Unsynced(hist[r].sheet0, roster[r][1])
        /\ Len(hist[r].rows) = 1
        /\ Stored(hist[r].log0, hist[r].fault)
        /\ hist[r].log1.data[1].member_count = 1

\* C6: log bound.  The log never holds more than LogCap entries, and as long
\* as no failed rewrite has destroyed the file it holds exactly the
\* min(N, LogCap) most recent of the N entries stored so far, most recent first.
LogBound ==
    /\ Len(log_file.data) <= LogCap
    /\ log_file.state # "corrupt" => log_file.data = Take(log_hist, LogCap)
    /\ log_file.state = "absent" => log_hist = <<>>

\* more than LogCap entries were stored, across a restart: the file holds the
\* newest LogCap of them and the oldest are gone
WitnessLogBound ==
    /\ Len(log_hist) > LogCap
    /\ restarts >= 1
    /\ log_file.state = "valid"
    /\ Len(log_file.data) = LogCap
    /\ log_file.data[1] = log_hist[1]
    /\ log_file.data[LogCap] = log_hist[LogCap]
    /\ log_hist[Len(log_hist)].status = "starting"
    /\ \A i \in 1..LogCap : log_file.data[i] # log_hist[Len(log_hist)]

\* C7: unresolvable guild.  A run that finds no guild ends at once: it has not
\* read the sheet, it leaves the sheet and the log as they were, the event
\* loop is free and the process keeps serving; the run stays ended.
UnresolvedGuildSkips ==
    [][\A r \in Runs :
          /\ (pc[r] = "get_guild" /\ ~guild_found /\ pc'[r] # "get_guild") =>
                /\ pc'[r] = "returned"
                /\ sheet' = sheet
                /\ log_file' = log_file
                /\ ~hist'[r].read
                /\ hist'[r].rows = <<>>
                /\ cur' = 0
                /\ proc' = "serving"
          /\ pc[r] = "returned" =>
                /\ pc'[r] = "returned"
                /\ hist'[r] = hist[r]]_vars

\* a run found no guild, and a later trigger ran a reconciliation that
\* appended rows
WitnessUnresolvedGuild ==
    \E r1, r2 \in Runs :
        /\ r1 < r2
        /\ pc[r1] = "returned"
        /\ ~hist[r1].read
        /\ pc[r2] = "done"
        /\ hist[r2].rows # <<>>

\* C8: overlapping runs can duplicate.  Without external edits, an identity
\* has two or more rows only through the race: two different runs that
\* overlapped, each holding an existing-identity set read while the identity
\* was absent, each appended a row for it.  The witness is such a state.
RaceDuplicates ==
    \A m \in MemberIds :
        (ext_edits = 0 /\ RowsOf(sheet, str(m)) >= 2) =>
            \E r1, r2 \in Runs :
                /\ r1 # r2
                /\ hist[r1].overlapped /\ hist[r2].overlapped
                /\ Unsynced(hist[r1].sheet0, m) /\ Unsynced(hist[r2].sheet0, m)
                /\ HasRowFor(hist[r1].rows, str(m))
                /\ HasRowFor(hist[r2].rows, str(m))

WitnessRaceDuplicates ==
    \E m \in MemberIds, r1, r2 \in Runs :
        /\ r1 < r2
        /\ ext_edits = 0
        /\ pc[r1] = "done" /\ pc[r2] = "done"
        /\ RowsOf(hist[r1].sheet0, str(m)) = 0
        /\ RowsOf(sheet, str(m)) = 2

\* C9: two join events for one new member.  Two overlapping runs started by
\* join events of the same member can each append a row for that member (the
\* witness); without external edits this happens only when the earlier run
\* appended the row of another member first, so that it was suspended in its
\* pacing sleep with the new member still ahead of it when the later run read
\* the sheet.
JoinRaceNeedsSuspension ==
    \A r1, r2 \in Runs : \A m \in MemberIds :
        ( /\ r1 < r2
          /\ ext_edits = 0
          /\ hist[r1].trigger = "join" /\ hist[r2].trigger = "join"
          /\ hist[r1].joined = m /\ hist[r2].joined = m
          /\ HasRowFor(hist[r1].rows, str(m))
          /\ HasRowFor(hist[r2].rows, str(m)) )
        => /\ hist[r1].rows[1][IdColumn] # str(m)
           /\ hist[r1].overlapped /\ hist[r2].overlapped

WitnessJoinRace ==
    \E r1, r2 \in Runs, m \in MemberIds :
        /\ r1 < r2
        /\ hist[r1].trigger = "join" /\ hist[r2].trigger = "join"
        /\ hist[r1].joined = m /\ hist[r2].joined = m
        /\ hist[r1].overlapped /\ hist[r2].overlapped
        /\ ext_edits = 0
        /\ RowsOf(hist[r1].sheet0, str(m)) = 0
        /\ RowsOf(sheet, str(m)) > 1

\* C10: append failure in mid-batch.  When append_row raises, the run has
\* ended at that member with the exception leaving sync_members (no handler
\* catches it): the rows it appended are those of earlier roster positions
\* only, they are all still in the sheet, and the member it failed on got no
\* row from it.
AppendFailureAborts ==
    \A r \in Runs :
        hist[r].raised = "append_row" =>
            /\ pc[r] = "failed"
            /\ cur # r
            /\ idx[r] \in 1..Len(roster[r])
            /\ Len(hist[r].rows) = added[r]
            /\ \A k \in 1..Len(hist[r].rows) :
                  /\ \E i \in 1..(idx[r] - 1) :
                        hist[r].rows[k][IdColumn] = str(roster[r][i])
                  /\ \E j \in 1..Len(hist[r].final) :
                        hist[r].final[j] = hist[r].rows[k]
                  /\ ext_edits = 0 => \E j \in 1..Len(sheet) :
                        sheet[j] = hist[r].rows[k]
            /\ ~HasRowFor(hist[r].rows, str(roster[r][idx[r]]))

\* a run appended a row, failed on the next member, and a still later roster
\* position holds a member that has no row
WitnessAppendFailure ==
    \E r \in Runs :
        /\ hist[r].raised = "append_row"
        /\ Len(hist[r].rows) >= 1
        /\ \E j \in (idx[r] + 1)..Len(roster[r]) : Unsynced(sheet, roster[r][j])
        /\ \A k \in 1..Len(hist[r].rows) :
              \E j \in 1..Len(sheet) : sheet[j] = hist[r].rows[k]

\* C11: a failure of the log write is isolated.  When the write_log call of a
\* run stores nothing (the file could not be read or written), no exception
\* reaches the run: it is done, not failed, the event loop is free again, the
\* rows it appended are all in the sheet it left behind (which is exactly the
\* sheet it read plus its rows when no other run worked beside it), and the
\* count it held is the number of its rows.  The same holds for the call at
\* start-up: it never keeps a configured process from serving.
LogFailureIsolated ==
    /\ \A r \in Runs :
          ~Stored(hist[r].log0, hist[r].fault) =>
              /\ pc[r] = "done"
              /\ hist[r].raised = "none"
              /\ cur # r
              /\ proc = "serving"
              /\ Len(hist[r].rows) = added[r]
              /\ \A k \in 1..Len(hist[r].rows) :
                    \E j \in 1..Len(hist[r].final) :
                        hist[r].final[j] = hist[r].rows[k]
              /\ ~hist[r].overlapped =>
                    hist[r].final = hist[r].sheet0 \o hist[r].rows
    /\ proc = "crashed" => env # GoodEnv

\* a run appended a row, its log write failed while rewriting the file, and
\* the run is done with its row in the sheet
WitnessLogFailure ==
    \E r \in Runs :
        /\ pc[r] = "done"
        /\ hist[r].fault = "dump"
        /\ hist[r].log1.state = "corrupt"
        /\ Len(hist[r].rows) >= 1
        /\ hist[r].final = hist[r].sheet0 \o hist[r].rows
        /\ sheet = hist[r].final
        /\ cur = 0

\* C12: the trigger filter.  A member-join event of a guild other than the
\* configured one starts no run and leaves every run, the sheet and the log as
\* they are; a ready event and a member-join event of the configured guild
\* each start exactly one run, named after its trigger, and nothing else
\* starts a run.
TriggerFilter ==
    [][/\ events'.other # events.other =>
              /\ next_run' = next_run
              /\ pc' = pc
              /\ cur' = cur
              /\ sheet' = sheet
              /\ log_file' = log_file
              /\ log_hist' = log_hist
       /\ (events'.ready # events.ready \/ events'.join # events.join) =>
              /\ next_run' = next_run + 1
              /\ pc[next_run] = "unused"
              /\ pc'[next_run] = "get_guild"
              /\ \A q \in Runs \ {next_run} : pc'[q] = pc[q]
              /\ hist'[next_run].trigger =
                    IF events'.ready # events.ready THEN "ready" ELSE "join"
       /\ next_run' # next_run =>
              events'.ready + events'.join = events.ready + events.join + 1
      ]_vars

\* a join in another guild was ignored, and a ready event and a join in the
\* configured guild have each had their run
WitnessTriggerFilter ==
    /\ events.other = 1
    /\ events.ready = 1
    /\ events.join = 1
    /\ next_run = 3
    /\ \E r, q \in Runs :
          /\ hist[r].trigger = "ready"
          /\ hist[q].trigger = "join"
          /\ pc[r] = "done"
          /\ pc[q] = "done"

\* C13: a configuration error is fatal at start-up.  When a required setting
\* is missing or unusable, or the credential blob does not decode, the process
\* never gets past its configuration: it serves no event, starts no run,
\* appends no row, and writes no log entry, not even the "starting" one.
ConfigErrorIsFatal ==
    env # GoodEnv =>
        /\ proc \in {"config", "crashed"}
        /\ events = NoEvents
        /\ next_run = 1
        /\ cur = 0
        /\ \A r \in Runs : pc[r] = "unused" /\ hist[r].rows = <<>>
        /\ ext_edits = 0 => IsPrefix(sheet, InitialRows)
        /\ log_file = NoFile
        /\ log_hist = <<>>

\* every setting is present but the credential blob does not decode: the
\* process has crashed while the guild was there with members still to sync
WitnessConfigError ==
    /\ proc = "crashed"
    /\ env = [GoodEnv EXCEPT !.GOOGLE_CREDENTIALS_JSON = "undecodable"]
    /\ guild_found
    /\ \E m \in Range(members) : Unsynced(sheet, m)
    /\ log_file = NoFile

\* C14: the set of existing identities is built anew by every run.  Whatever
\* earlier runs held, the set of a run is the identity column of the sheet as
\* that run read it, plus the identities of the rows the run itself appended;
\* so a run that reaches its end has appended a row for exactly those roster
\* members that had no row in the sheet it read, also when the sheet was
\* edited from outside since the run before.
FreshRead ==
    \A r \in Runs :
        hist[r].read =>
            /\ existing_ids[r] =
                  {hist[r].sheet0[i][IdColumn] : i \in 1..Len(hist[r].sheet0)}
                  \cup {hist[r].rows[k][IdColumn] : k \in 1..Len(hist[r].rows)}
            /\ pc[r] = "done" =>
                  \A m \in Range(roster[r]) :
                      HasRowFor(hist[r].rows, str(m)) <=> Unsynced(hist[r].sheet0, m)

\* a member had a row when the first run ended, the row was deleted from
\* outside, and the second run, which found no row, appended one again
WitnessFreshRead ==
    \E m \in MemberIds :
        /\ pc[1] = "done"
        /\ pc[2] = "done"
        /\ ext_edits = 1
        /\ HasRowFor(hist[1].final, str(m))
        /\ m \in Range(roster[1])
        /\ Unsynced(hist[2].sheet0, m)
        /\ HasRowFor(hist[2].rows, str(m))

\* C15: pacing within one run.  The step that appends a row puts the run to
\* sleep at the member it stands at, and only the end of that sleep, one
\* second later at the earliest, moves it on to the next member; a step past
\* a member that has a row already takes no time and no sleep.  So the delays
\* a run has slept through are as many as its rows, less the one it is in,
\* two rows of one run are at least a second apart, and a run that is done has
\* slept once per row.
PacedAppends ==
    [][\A r \in Runs :
          /\ hist'[r].rows # hist[r].rows =>
                /\ pc[r] = "loop"
                /\ pc'[r] = "sleep"
                /\ cur = r
                /\ cur' = 0
                /\ idx'[r] = idx[r]
                /\ hist'[r].sleeps = hist[r].sleeps
          /\ (pc[r] = "sleep" /\ pc'[r] # "sleep") =>
                /\ pc'[r] = "loop"
                /\ idx'[r] = idx[r] + 1
                /\ hist'[r].sleeps = hist[r].sleeps + 1
                /\ now' >= hist[r].times[Len(hist[r].times)] + 1
          /\ (pc[r] = "loop" /\ idx'[r] # idx[r]) =>
                /\ pc'[r] = "loop"
                /\ cur' = r
                /\ now' = now
                /\ hist'[r] = hist[r]
          /\ hist'[r].sleeps =
                Len(hist'[r].rows) - (IF pc'[r] = "sleep" THEN 1 ELSE 0)
          /\ \A k \in 1..(Len(hist'[r].times) - 1) :
                hist'[r].times[k + 1] >= hist'[r].times[k] + 1
          /\ pc'[r] = "done" => hist'[r].sleeps = added'[r]
      ]_vars

\* a run that is done went past a member with a row without sleeping and
\* appended two rows, with one sleep after each
WitnessPacedAppends ==
    \E r \in Runs :
        /\ pc[r] = "done"
        /\ Len(roster[r]) = 3
        /\ Len(hist[r].rows) = 2
        /\ hist[r].sleeps = 2
        /\ hist[r].times[2] >= hist[r].times[1] + 1

\* C16: serialized runs keep identities unique.  As long as no run has worked
\* beside another and nobody has edited the sheet from outside, no value of
\* the identity column stands in two rows, whatever runs have been made and
\* however the roster changed between them.
SerializedRunsUnique ==
    (ext_edits = 0 /\ \A r \in Runs : ~hist[r].overlapped) =>
        \A i, j \in 1..Len(sheet) :
            sheet[i][IdColumn] = sheet[j][IdColumn] => i = j

\* two runs, one after the other, over different rosters: each appended a
\* row, and the member of the first run's row was in the second run's roster
WitnessSerializedRuns ==
    /\ ext_edits = 0
    /\ pc[1] = "done"
    /\ pc[2] = "done"
    /\ ~hist[1].overlapped
    /\ ~hist[2].overlapped
    /\ roster[1] # roster[2]
    /\ Len(hist[1].rows) >= 1
    /\ Len(hist[2].rows) >= 1
    /\ \E m \in Range(roster[2]) : HasRowFor(hist[1].rows, str(m))
    /\ sheet = hist[1].sheet0 \o hist[1].rows \o hist[2].rows

\* C17: termination.  Under the event loop's fairness every run that was
\* started comes to its end, by its log write, by its early return or by an
\* exception, and the event loop is idle again, unless an external call never
\* returns.  On its way the index of a run moves one member at a time up to
\* the end of the roster, there is at most one row and one sleep for every
\* member passed, and a run that is done stands behind the last member and
\* has made its log call.  A run whose call never returns stays where it is
\* and keeps the event loop: no step ends it.
RunsTerminate ==
    /\ \A r \in Runs :
          (pc[r] # "unused") ~> (Finished(r) \/ \E q \in Runs : pc[q] = "hung")
    /\ (cur # 0) ~> (cur = 0 \/ \E q \in Runs : pc[q] = "hung")
    /\ [](\A r \in Runs :
            /\ idx[r] <= Len(roster[r]) + 1
            /\ Len(hist[r].rows) <= (IF pc[r] = "sleep" THEN idx[r]
                                     ELSE Max(idx[r] - 1, 0))
            /\ hist[r].sleeps <= Len(hist[r].rows)
            /\ pc[r] = "done" =>
                  /\ idx[r] = Len(roster[r]) + 1
                  /\ Stored(hist[r].log0, hist[r].fault) =>
                        \E k \in 1..Len(log_hist) :
                            /\ log_hist[k].status = "sync"
                            /\ log_hist[k].member_count = Len(hist[r].rows))
    /\ [][\A r \in Runs :
            /\ idx'[r] # idx[r] => idx'[r] = idx[r] + 1
            /\ pc[r] = "hung" => (pc'[r] = "hung" /\ cur' = r)
            /\ Finished(r) => (pc'[r] = pc[r] /\ hist'[r] = hist[r])
         ]_vars

\* one run went through its roster, appending and skipping, and is done;
\* the next run hangs in a call that does not return and keeps the event loop
WitnessRunsTerminate ==
    /\ pc[1] = "done"
    /\ Len(roster[1]) >= 2
    /\ Len(hist[1].rows) >= 1
    /\ Len(hist[1].rows) < Len(roster[1])
    /\ hist[1].log1.state = "valid"
    /\ pc[2] = "hung"
    /\ cur = 2

\* C18: at least once under overlap.  When a run is done, every member of the
\* roster it went over has at least one row in the sheet the run left behind,
\* whatever other runs worked beside it; and as long as nobody edits the sheet
\* from outside the rows stay.
AtLeastOnce ==
    \A r \in Runs :
        pc[r] = "done" =>
            \A m \in Range(roster[r]) :
                /\ RowsOf(hist[r].final, str(m)) >= 1
                /\ ext_edits = 0 => RowsOf(sheet, str(m)) >= 1

\* two runs worked beside each other and both are done; a member of both
\* rosters has two rows, and every member of either roster has a row
WitnessAtLeastOnce ==
    /\ pc[1] = "done"
    /\ pc[2] = "done"
    /\ hist[1].overlapped
    /\ hist[2].overlapped
    /\ \E m \in Range(roster[1]) \cap Range(roster[2]) : RowsOf(sheet, str(m)) = 2
    /\ \A m \in Range(roster[1]) \cup Range(roster[2]) : RowsOf(sheet, str(m)) >= 1

\* the "sync" entries of a list of log entries: how many, and what they count
SyncEntryCount(entries) ==
    Cardinality({k \in 1..Len(entries) : entries[k].status = "sync"})

RECURSIVE SyncCountSum(_)
SyncCountSum(entries) ==
    IF entries = <<>> THEN 0
    ELSE (IF Head(entries).status = "sync" THEN Head(entries).member_count ELSE 0)
         + SyncCountSum(Tail(entries))

\* the rows appended by the runs of a set
RECURSIVE RowsAppendedBy(_)
RowsAppendedBy(W) ==
    IF W = {} THEN 0
    ELSE LET r == CHOOSE x \in W : TRUE
         IN  Len(hist[r].rows) + RowsAppendedBy(W \ {r})

\* C19 as stated: the log file holds exactly one "sync" entry for every run
\* that is done, and the member_count of these entries add up to the rows
\* those runs appended.
EveryDoneRunHasItsEntry ==
    LET D == {r \in Runs : pc[r] = "done"}
    IN  /\ SyncEntryCount(log_file.data) = Cardinality(D)
        /\ SyncCountSum(log_file.data) = RowsAppendedBy(D)

\* C19 amended: no log entry is lost to the write of another run.  The runs
\* that are done and whose write_log call succeeded have stored exactly one
\* "sync" entry each, and the counts of the stored entries add up to the rows
\* those runs appended; a file that can be read holds every entry stored so
\* far (up to the cap), newest first, also when the runs worked beside each
\* other.  A run whose call failed is done without an entry, and a rewrite
\* that failed after truncating the file has left it with no entry at all.
NoLostEntries ==
    LET D == {r \in Runs : pc[r] = "done" /\ Stored(hist[r].log0, hist[r].fault)}
    IN  /\ SyncEntryCount(log_hist) = Cardinality(D)
        /\ SyncCountSum(log_hist) = RowsAppendedBy(D)
        /\ log_file.state = "valid" => log_file.data = Take(log_hist, LogCap)
        /\ log_file.state = "absent" => log_hist = <<>>
        /\ log_file.state = "corrupt" => log_file.data = <<>>
        /\ \A r \in D :
              /\ hist[r].log1.data[1].status = "sync"
              /\ Tail(hist[r].log1.data) = hist[r].log0.data

\* two runs worked beside each other, each appended a row and each stored its
\* entry: the file holds both entries on top of the "starting" one
WitnessNoLostEntries ==
    /\ pc[1] = "done"
    /\ pc[2] = "done"
    /\ hist[1].overlapped
    /\ hist[2].overlapped
    /\ Len(hist[1].rows) >= 1
    /\ Len(hist[2].rows) >= 1
    /\ log_file.state = "valid"
    /\ Len(log_file.data) = 3
    /\ SyncEntryCount(log_file.data) = 2
    /\ SyncCountSum(log_file.data) = Len(hist[1].rows) + Len(hist[2].rows)

\* C20: a run that an append failure ended records no "sync" entry.  The step
\* in which append_row raises leaves the log file as it is and the sheet with
\* the rows appended before; from then on the run is over and makes no
\* further step, so it never calls write_log, and only runs that come to
\* their end, and the start of the process, put entries into the log.
AbortedRunLogsNothing ==
    [][/\ \A r \in Runs :
             /\ (hist'[r].raised = "append_row" /\ hist[r].raised # "append_row") =>
                   /\ log_file' = log_file
                   /\ log_hist' = log_hist
                   /\ sheet' = sheet
                   /\ pc'[r] = "failed"
                   /\ hist'[r].rows = hist[r].rows
                   /\ hist'[r].log1 = NoFile
             /\ hist[r].raised = "append_row" =>
                   /\ pc'[r] = pc[r]
                   /\ hist'[r] = hist[r]
                   /\ added'[r] = added[r]
       /\ log_hist' # log_hist =>
             \/ proc = "main"
             \/ \E r \in Runs :
                   /\ pc[r] = "loop"
                   /\ pc'[r] = "done"
                   /\ hist[r].raised = "none"
                   /\ Head(log_hist').member_count = Len(hist[r].rows)
      ]_vars

\* a run appended a row and failed on the next member: its row is in the
\* sheet, and the log holds the "starting" entry and nothing else
WitnessAbortedRun ==
    \E r \in Runs :
        /\ hist[r].raised = "append_row"
        /\ pc[r] = "failed"
        /\ Len(hist[r].rows) = 1
        /\ HasRowFor(sheet, hist[r].rows[1][IdColumn])
        /\ log_file.state = "valid"
        /\ Len(log_file.data) = 1
        /\ log_file.data[1].status = "starting"
        /\ SyncCountSum(log_hist) = 0

====
